---- MODULE Spec2Model ----
(***************************************************************************)
(* Model of the umpire missed-call evaluator of MLB-Stats                  *)
(* (src/get/umpire.py): the three pitch-call strategies delta_favor_zone,  *)
(* delta_favor_dist and delta_favor_monte with their helpers, and the game *)
(* aggregator find_missed_calls.                                           *)
(*                                                                         *)
(* Lengths are integers in units of 1/20 inch, so that BUFFER_INCH = .350  *)
(* is 7 and the Hawkeye margin of error 0.25 inch is 5.  Run values (the   *)
(* entries of the run-expectancy difference table) are integers.           *)
(* Python values that may have the wrong type are tagged records           *)
(* [t |-> type, v |-> integer].                                            *)
(***************************************************************************)
EXTENDS Integers, Sequences, FiniteSets

VARIABLES
  pitch,        \* the PlayEvents record handed to a strategy
  isTopInning,  \* the isTopInning argument, a tagged Python value
  runners,      \* the runners argument: a Runners object or None
  runners_int,  \* the runners_int argument, a tagged Python value
  pc,           \* "ready", or the strategy that has returned
  ret,          \* what the strategy returned or raised
  strike,       \* samples counted inside the zone by the Monte-Carlo loop
  gpc,          \* find_missed_calls: "idle", "start", "atbat", "pitches", "done", "raised"
  abIndex,      \* how many at-bats of allPlays the outer loop has taken
  at_bat,       \* the at-bat of the current outer iteration
  ipos,         \* how many entries of at_bat.pitchIndex the inner loop has taken
  trk,          \* the Runners tracker of find_missed_calls
  home_favor,   \* the running sum
  missed_calls, \* the list of missed pitches, as references <<at-bat, event index>>
  result,       \* the returned tuple
  wantFavor,    \* sum of the strategy results over the pitches of the at-bats read
  wantMissed,   \* the pitches of the at-bats read whose strategy result is not 0
  nEvents,      \* events of the at-bats read so far
  sself,        \* the ScoreboardData object update_and_return_new is called on
  fetched,      \* new_game: the snapshot the last call fetched
  differences,  \* the differences object the last call returned
  new_info,     \* the flag the last call returned
  before,       \* the schema fields of the object when the last call began
  lastFetched,  \* the snapshot fetched by the call (or constructor) before the last
  polls,        \* calls of update_and_return_new so far
  gameArg,      \* whether the caller supplied a game (is not None)
  gamePkArg,    \* whether the caller supplied a gamePk (is not None)
  gameSrc,      \* the game the operation works on: "none", "arg" or "fetched"
  fmcErr,       \* the exception find_missed_calls raised on entry, or "none"
  umpire,       \* the outcome of Umpire(gamePk, game)
  nNew,         \* calls of runners.new_batter so far
  nEnd,         \* calls of runners.end_batter so far
  trkAtNew,     \* the tracker as the last new_batter left it
  usedRunners,  \* the runner states the pitches of the current at-bat were priced with
  wantJudged    \* the pitches of the at-bats read that the strategy judges incorrect

evalVars == <<pitch, isTopInning, runners, runners_int, pc, ret, strike>>

gameVars == <<gpc, abIndex, at_bat, ipos, trk, home_favor, missed_calls, result,
              wantFavor, wantMissed, nEvents>>

scoreVars == <<sself, fetched, differences, new_info, before, lastFetched, polls>>

entryVars == <<gameArg, gamePkArg, gameSrc, fmcErr, umpire>>

seqVars == <<nNew, nEnd, trkAtNew, usedRunners, wantJudged>>

vars == <<evalVars, gameVars, scoreVars, entryVars, seqVars>>

-----------------------------------------------------------------------------
(* Module constants of umpire.py, in 1/20 inch.                             *)

HAWKEYE_MARGIN_OF_ERROR == 5

BUFFER_FEET == 7

\* range(1, 501): the number of candidate locations per decision pitch
NumSamples == 500

(* The strike-zone edges of get/game.py (not in src/): a fixed horizontal   *)
(* half-width and batter-specific vertical bounds.                          *)
PX_MIN == -199

PX_MAX == 199

ZoneBots == {360}

ZoneTops == {816}

-----------------------------------------------------------------------------
(* Python values.                                                           *)

PyNone == [t |-> "none", v |-> 0]

PyInt(n) == [t |-> "int", v |-> n]

PyStr == [t |-> "str", v |-> 0]

PyBool(b) == [t |-> "bool", v |-> IF b THEN 1 ELSE 0]

NoRunners == [given |-> FALSE, first |-> FALSE, second |-> FALSE, third |-> FALSE]

RunnersObj(f, s, t) == [given |-> TRUE, first |-> f, second |-> s, third |-> t]

\* int(runners): first = bit 0, second = bit 1, third = bit 2
RunnersInt(r) ==
  (IF r.first THEN 1 ELSE 0) + (IF r.second THEN 2 ELSE 0) + (IF r.third THEN 4 ELSE 0)

-----------------------------------------------------------------------------
(* The run-expectancy difference table rednp, shape [4][3][3][8].  Its      *)
(* values come from data outside src/; the model uses a table whose entries *)
(* are pairwise different in absolute value, with one zero entry and with   *)
(* negative entries in the last runner column.                              *)

BallsDom == 0 .. 3

StrikesDom == 0 .. 2

OutsDom == 0 .. 2

RunnerDom == 0 .. 7

rednp(b, s, o, r) ==
  LET v == b + 4 * s + 12 * o + 36 * r
  IN  IF r = 7 THEN -v ELSE v

\* numpy indexing along one axis of length n: a negative index counts from
\* the end, anything outside -n .. n-1 raises IndexError
NpInRange(i, n) == i >= -n /\ i < n

NpIndex(i, n) == IF i < 0 THEN i + n ELSE i

NoLookup == [done |-> FALSE, b |-> 0, s |-> 0, o |-> 0, r |-> 0]

Lookup(b, s, o, r) == [done |-> TRUE, b |-> b, s |-> s, o |-> o, r |-> r]

\* rednp[b][s][o][r] as the interpreter evaluates it
RedNpAt(b, s, o, r) ==
  IF NpInRange(b, 4) /\ NpInRange(s, 3) /\ NpInRange(o, 3) /\ NpInRange(r, 8)
  THEN [kind |-> "value",
        val |-> rednp(NpIndex(b, 4), NpIndex(s, 3), NpIndex(o, 3), NpIndex(r, 8)),
        lookup |-> Lookup(b, s, o, r)]
  ELSE [kind |-> "IndexError", val |-> 0, lookup |-> Lookup(b, s, o, r)]

Return(v, lk) == [kind |-> "value", val |-> v, lookup |-> lk]

Raise(e) == [kind |-> e, val |-> 0, lookup |-> NoLookup]

-----------------------------------------------------------------------------
(* Argument validation.                                                     *)

\* delta_favor_zone and delta_favor_dist
CheckArgs(isTop, rs, rint) ==
  IF rint.t = "none" /\ ~rs.given THEN "ValueError"
  ELSE IF rint.t \notin {"int", "bool"} /\ rint.t # "none" THEN "TypeError"
  ELSE IF isTop.t # "bool" THEN "TypeError"
  ELSE "ok"

\* delta_favor_monte
CheckArgsMonte(isTop, rs, rint) ==
  IF ~rs.given /\ rint.t = "none" THEN "ValueError"
  ELSE IF rint.t \notin {"int", "bool"} THEN "TypeError"
  ELSE IF isTop.t # "bool" THEN "TypeError"
  ELSE "ok"

\* if runners is not None: runners_int = int(runners)
RunnerIndex(rs, rint) == IF rs.given THEN RunnersInt(rs) ELSE rint.v

-----------------------------------------------------------------------------
(* Run-delta pricing of a call judged incorrect.                            *)

\* the count of the pitch record is used as it is
HomeDelta_SameCount(p, r) ==
  IF p.code = "C"
  THEN LET e == RedNpAt(p.balls, p.strikes, p.outs, r)
       IN  IF e.kind = "value" THEN Return(0 + e.val, e.lookup) ELSE e
  ELSE IF p.code = "B"
  THEN LET e == RedNpAt(p.balls, p.strikes, p.outs, r)
       IN  IF e.kind = "value" THEN Return(0 - e.val, e.lookup) ELSE e
  ELSE Return(0, NoLookup)

HomeDelta(p, r) ==
  IF p.code = "C"
  THEN LET e == RedNpAt(p.balls, p.strikes - 1, p.outs, r)
       IN  IF e.kind = "value" THEN Return(0 + e.val, e.lookup) ELSE e
  ELSE IF p.code = "B"
  THEN LET e == RedNpAt(p.balls - 1, p.strikes, p.outs, r)
       IN  IF e.kind = "value" THEN Return(0 - e.val, e.lookup) ELSE e
  ELSE Return(0, NoLookup)

\* the half-inning is ignored
SignForHalf_NoFlip(d, isTop) == d

SignForHalf(d, isTop) ==
  IF d.kind # "value" THEN d
  ELSE IF isTop.v = 1 THEN d
  ELSE Return(-d.val, d.lookup)

-----------------------------------------------------------------------------
(* Strategy A: zone number.                                                 *)

\* zone number 10 counts as outside
IsCorrectCallZoneNum_From10(p) ==
  IF ~p.hasData THEN "raise"
  ELSE IF p.code = "C" /\ p.zone >= 10 THEN "incorrect"
  ELSE IF p.code = "B" /\ 1 <= p.zone /\ p.zone <= 9 THEN "incorrect"
  ELSE "correct"

\* "raise" when pitch.pitchData is None: the attribute zone is read of None
IsCorrectCallZoneNum(p) ==
  IF ~p.hasData THEN "raise"
  ELSE IF p.code = "C" /\ p.zone > 10 THEN "incorrect"
  ELSE IF p.code = "B" /\ 1 <= p.zone /\ p.zone <= 9 THEN "incorrect"
  ELSE "correct"

DeltaFavorZone(p, isTop, rs, rint) ==
  LET chk == CheckArgs(isTop, rs, rint)
      r == RunnerIndex(rs, rint)
      correct == IF p.code \in {"C", "B"} THEN IsCorrectCallZoneNum(p) ELSE "correct"
  IN  IF chk # "ok" THEN Raise(chk)
      ELSE IF correct = "raise" THEN Raise("AttributeError")
      ELSE IF correct = "correct" THEN Return(0, NoLookup)
      ELSE SignForHalf(HomeDelta(p, r), isTop)

-----------------------------------------------------------------------------
(* Strategy B: distance from the zone edges.                                *)

\* the left and right regions stop at the top and bottom edges and the top
\* and bottom regions at the left and right edges
InBufferZone_NoCorners(p) ==
  LET buf == BUFFER_FEET
      pX == p.pX
      pZ == p.pZ
      pZ_top == p.pZ_top
      pZ_bot == p.pZ_bot
      pX_left == PX_MIN
      pX_right == PX_MAX
  IN  \/ /\ pX_left - buf <= pX /\ pX <= pX_left + buf
         /\ pZ_bot <= pZ /\ pZ <= pZ_top
      \/ /\ pX_right - buf <= pX /\ pX <= pX_right + buf
         /\ pZ_bot <= pZ /\ pZ <= pZ_top
      \/ /\ pZ_top - buf <= pZ /\ pZ <= pZ_top + buf
         /\ pX_left <= pX /\ pX <= pX_right
      \/ /\ pZ_bot - buf <= pZ /\ pZ <= pZ_bot + buf
         /\ pX_left <= pX /\ pX <= pX_right

\* the bottom region is left out
InBufferZone_NoBottom(p) ==
  LET buf == BUFFER_FEET
      pX == p.pX
      pZ == p.pZ
      pZ_top == p.pZ_top
      pZ_bot == p.pZ_bot
      pX_left == PX_MIN
      pX_right == PX_MAX
  IN  \/ /\ pX_left - buf <= pX /\ pX <= pX_left + buf
         /\ pZ_bot - buf <= pZ /\ pZ <= pZ_top + buf
      \/ /\ pX_right - buf <= pX /\ pX <= pX_right + buf
         /\ pZ_bot - buf <= pZ /\ pZ <= pZ_top + buf
      \/ /\ pZ_top - buf <= pZ /\ pZ <= pZ_top + buf
         /\ pX_left - buf <= pX /\ pX <= pX_right + buf

InBufferZone(p) ==
  LET buf == BUFFER_FEET
      pX == p.pX
      pZ == p.pZ
      pZ_top == p.pZ_top
      pZ_bot == p.pZ_bot
      pX_left == PX_MIN
      pX_right == PX_MAX
  IN  \/ /\ pX_left - buf <= pX /\ pX <= pX_left + buf      \* left zone
         /\ pZ_bot - buf <= pZ /\ pZ <= pZ_top + buf
      \/ /\ pX_right - buf <= pX /\ pX <= pX_right + buf    \* right zone
         /\ pZ_bot - buf <= pZ /\ pZ <= pZ_top + buf
      \/ /\ pZ_top - buf <= pZ /\ pZ <= pZ_top + buf        \* top zone
         /\ pX_left - buf <= pX /\ pX <= pX_right + buf
      \/ /\ pZ_bot - buf <= pZ /\ pZ <= pZ_bot + buf        \* bottom zone
         /\ pX_left - buf <= pX /\ pX <= pX_right + buf

\* runners_int is handed on as given, the Runners object is dropped
DeltaFavorDist_DropsRunners(p, isTop, rs, rint) ==
  LET chk == CheckArgs(isTop, rs, rint)
  IN  IF chk # "ok" THEN Raise(chk)
      ELSE IF ~p.hasData THEN Return(0, NoLookup)
      ELSE IF ~p.valid THEN Return(0, NoLookup)
      ELSE IF InBufferZone(p) THEN Return(0, NoLookup)
      ELSE DeltaFavorZone(p, isTop, NoRunners, rint)

DeltaFavorDist(p, isTop, rs, rint) ==
  LET chk == CheckArgs(isTop, rs, rint)
      passed == IF rs.given THEN PyInt(RunnersInt(rs)) ELSE rint
  IN  IF chk # "ok" THEN Raise(chk)
      ELSE IF ~p.hasData THEN Return(0, NoLookup)
      ELSE IF ~p.valid THEN Return(0, NoLookup)
      ELSE IF InBufferZone(p) THEN Return(0, NoLookup)
      ELSE DeltaFavorZone(p, isTop, NoRunners, passed)

-----------------------------------------------------------------------------
(* Strategy C: Monte-Carlo over the tracking error.                         *)

\* _generage_random_pitch_location: the offsets (dx, dz) a draw can produce,
\* delta_radius in [-moe, moe] at any angle
SampleOffsets ==
  LET moe == HAWKEYE_MARGIN_OF_ERROR
  IN  {d \in (-moe .. moe) \X (-moe .. moe) : d[1] * d[1] + d[2] * d[2] <= moe * moe}

\* the test of one candidate location; pitch.PX_MIN and pitch.PX_MAX are the
\* left and right strike-zone bounds of the pitch record
SampleInZone(p, d) ==
  LET rand_x == p.pX + d[1]
      rand_z == p.pZ + d[2]
  IN  /\ PX_MIN <= rand_x /\ rand_x <= PX_MAX
      /\ p.pZ_bot <= rand_z /\ rand_z <= p.pZ_top

\* the values the counter strike can hold after the NumSamples draws, among
\* the representative counts StrikeCountDom
StrikeCountDom == {0, 49, 50, 51, 449, 450, 451, 500}

StrikeCounts(p) ==
  {k \in StrikeCountDom :
     /\ k >= 0 /\ k <= NumSamples
     /\ k > 0 => \E d \in SampleOffsets : SampleInZone(p, d)
     /\ k < NumSamples => \E d \in SampleOffsets : ~SampleInZone(p, d)}

\* 90% of the samples are enough
IsCorrectCallMonteCarlo_AtLeast(p, k) ==
  LET ball == NumSamples - k
      total == ball + k
  IN  IF p.code = "B" /\ k * 10 >= 9 * total THEN FALSE
      ELSE IF p.code = "C" /\ ball * 10 >= 9 * total THEN FALSE
      ELSE TRUE

\* strike / total > 0.90 in floating point is strike * 10 > 9 * total for every
\* count 0 .. 500
IsCorrectCallMonteCarlo(p, k) ==
  LET ball == NumSamples - k
      total == ball + k
  IN  IF p.code = "B" /\ k * 10 > 9 * total THEN FALSE
      ELSE IF p.code = "C" /\ ball * 10 > 9 * total THEN FALSE
      ELSE TRUE

\* TRUE when the call reaches the sampling loop
MonteSamples(p, isTop, rs, rint) ==
  /\ CheckArgsMonte(isTop, rs, rint) = "ok"
  /\ p.hasData /\ p.valid
  /\ p.code \in {"C", "B"}

DeltaFavorMonte(p, isTop, rs, rint, k) ==
  LET chk == CheckArgsMonte(isTop, rs, rint)
      r == RunnerIndex(rs, rint)
      correct == IF p.code \in {"C", "B"} THEN IsCorrectCallMonteCarlo(p, k) ELSE TRUE
  IN  IF chk # "ok" THEN Raise(chk)
      ELSE IF ~p.hasData THEN Return(0, NoLookup)
      ELSE IF ~p.valid THEN Return(0, NoLookup)
      ELSE IF correct THEN Return(0, NoLookup)
      ELSE SignForHalf(HomeDelta(p, r), isTop)

-----------------------------------------------------------------------------
(* Inputs.                                                                  *)

Codes == {"C", "B", "S"}

ZoneDom == {0, 1, 9, 10, 11}

NoDataPitch(c, b, s, o) ==
  [code |-> c, hasData |-> FALSE, valid |-> FALSE, zone |-> 0,
   pX |-> 0, pZ |-> 0, pZ_top |-> 0, pZ_bot |-> 0,
   balls |-> b, strikes |-> s, outs |-> o]

InvalidPitch(c, z, b, s, o) ==
  [code |-> c, hasData |-> TRUE, valid |-> FALSE, zone |-> z,
   pX |-> 0, pZ |-> 0, pZ_top |-> 0, pZ_bot |-> 0,
   balls |-> b, strikes |-> s, outs |-> o]

ValidPitch(c, z, x, y, top, bot, b, s, o) ==
  [code |-> c, hasData |-> TRUE, valid |-> TRUE, zone |-> z,
   pX |-> x, pZ |-> y, pZ_top |-> top, pZ_bot |-> bot,
   balls |-> b, strikes |-> s, outs |-> o]

RunnersObjs == {RunnersObj(f, s, t) : f \in BOOLEAN, s \in BOOLEAN, t \in BOOLEAN}

Bools == {PyBool(TRUE), PyBool(FALSE)}

\* locations relative to an edge: beyond the buffer, on its rim, inside it
EdgeOffsets ==
  {-(BUFFER_FEET + 1), -BUFFER_FEET, -4, 0, 4, BUFFER_FEET, BUFFER_FEET + 1}

XDom == {PX_MIN + d : d \in EdgeOffsets} \cup {PX_MAX + d : d \in EdgeOffsets} \cup {0}

ZDom(top, bot) ==
  {bot + d : d \in EdgeOffsets} \cup {top + d : d \in EdgeOffsets} \cup {(top + bot) \div 2}

\* the middle of the zone, its left edge, far off the plate
FewLocations(top, bot) ==
  {<<0, (top + bot) \div 2>>, <<PX_MIN, (top + bot) \div 2>>,
   <<PX_MAX + 100, (top + bot) \div 2>>}

\* every count and runner state, few locations
InitPricing ==
  /\ pitch \in
       {NoDataPitch(c, b, s, o) :
          c \in Codes, b \in BallsDom, s \in StrikesDom, o \in OutsDom}
       \cup
       {InvalidPitch(c, z, b, s, o) :
          c \in Codes, z \in ZoneDom, b \in BallsDom, s \in StrikesDom, o \in OutsDom}
       \cup
       UNION {UNION {{ValidPitch(c, z, l[1], l[2], top, bot, b, s, o) :
                        c \in Codes, z \in ZoneDom, b \in BallsDom,
                        s \in StrikesDom, o \in OutsDom} :
                     l \in FewLocations(top, bot)} :
              top \in ZoneTops, bot \in ZoneBots}
  /\ isTopInning \in Bools
  /\ \/ runners = NoRunners /\ runners_int \in {PyInt(r) : r \in RunnerDom}
     \/ runners \in RunnersObjs /\ runners_int = PyNone

\* every location around the zone edges, one count
InitGeometry ==
  /\ pitch \in
       UNION {{ValidPitch(c, z, x, y, top, bot, 1, 1, 1) :
                 c \in Codes, z \in ZoneDom, x \in XDom, y \in ZDom(top, bot)} :
              top \in ZoneTops, bot \in ZoneBots}
  /\ isTopInning \in Bools
  /\ runners = NoRunners
  /\ runners_int = PyInt(3)

\* strike zones exactly 2 * BUFFER_FEET tall and a little taller
NarrowTops(bot) == {bot + 2 * BUFFER_FEET, bot + 2 * BUFFER_FEET + 2}

\* called strikes over low strike zones, every location around the edges
InitBand ==
  /\ pitch \in
       UNION {UNION {{ValidPitch("C", 11, x, y, top, bot, 1, 1, 1) :
                        x \in XDom, y \in ZDom(top, bot)} :
                     top \in NarrowTops(bot)} :
              bot \in ZoneBots}
  /\ isTopInning = PyBool(TRUE)
  /\ runners = NoRunners
  /\ runners_int = PyInt(3)

\* every shape of the arguments, few pitches
ArgPitches ==
  {ValidPitch("C", 11, PX_MAX + 100, 588, 816, 360, 1, 1, 1),
   ValidPitch("B", 1, 0, 588, 816, 360, 1, 1, 1),
   ValidPitch("C", 1, 0, 588, 816, 360, 1, 1, 1),
   ValidPitch("S", 11, PX_MAX + 100, 588, 816, 360, 1, 1, 1)}

InitArgs ==
  /\ pitch \in ArgPitches
  /\ isTopInning \in Bools \cup {PyInt(1), PyNone}
  /\ runners \in {NoRunners, RunnersObj(TRUE, FALSE, TRUE), RunnersObj(FALSE, FALSE, FALSE)}
  /\ runners_int \in {PyNone, PyStr, PyInt(0), PyInt(6)}

-----------------------------------------------------------------------------
(* ScoreboardData (src/get/scoreboard_data.py): the schema and a snapshot.  *)

\* ScoreboardData.keys
keys ==
  <<"abstractGameState", "abstractGameCode", "detailedState", "codedGameState",
    "delay_seconds", "statusCode", "game_state", "away_abv", "home_abv",
    "away_score", "home_score", "start_time", "inning", "inning_state", "outs",
    "runners", "umpire", "gamepk">>

KeySet == {keys[i] : i \in 1 .. Len(keys)}

\* the fields that differ from one fetch of the game to the next; gamepk and
\* delay_seconds are the arguments every fetch is made with
LiveKeys == {"inning", "outs", "umpire"}

\* what a field of a fetched game can hold
FieldVals == {PyNone, PyInt(1), PyInt(2)}

\* ScoreboardData(gamepk, delay_seconds): the attributes of a freshly
\* constructed object
Snapshots ==
  {[k \in KeySet |-> IF k \in LiveKeys THEN live[k] ELSE PyInt(1)] :
     live \in [LiveKeys -> FieldVals]}

ScoreIdle ==
  /\ sself = [k \in KeySet |-> PyNone]
  /\ fetched = [k \in KeySet |-> PyNone]
  /\ differences = [k \in KeySet |-> PyNone]
  /\ new_info = FALSE
  /\ before = [k \in KeySet |-> PyNone]
  /\ lastFetched = [k \in KeySet |-> PyNone]
  /\ polls = 0

NoAtBat == [isTopInning |-> TRUE, offense |-> NoRunners, playEvents |-> <<>>,
            pitchIndex |-> <<>>]

NoResult == [n |-> 0, favor |-> 0, missed |-> <<>>]

NoUmpire == [kind |-> "none", gameSrc |-> "none"]

EntryIdle(args) ==
  /\ gameArg \in args
  /\ gamePkArg \in args
  /\ gameSrc = "none"
  /\ fmcErr = "none"
  /\ umpire = NoUmpire

SeqIdle ==
  /\ nNew = 0
  /\ nEnd = 0
  /\ trkAtNew = NoRunners
  /\ usedRunners = {}
  /\ wantJudged = <<>>

GameIdle ==
  /\ gpc = "idle"
  /\ abIndex = 0
  /\ at_bat = NoAtBat
  /\ ipos = 0
  /\ trk = NoRunners
  /\ home_favor = 0
  /\ missed_calls = <<>>
  /\ result = NoResult
  /\ wantFavor = 0
  /\ wantMissed = <<>>
  /\ nEvents = 0
  /\ EntryIdle({FALSE})
  /\ SeqIdle

Init ==
  /\ InitPricing \/ InitGeometry \/ InitBand \/ InitArgs
  /\ pc = "ready"
  /\ ret = Raise("none")
  /\ strike = -1
  /\ GameIdle
  /\ ScoreIdle

CallZone ==
  /\ pc = "ready"
  /\ pc' = "zone"
  /\ ret' = DeltaFavorZone(pitch, isTopInning, runners, runners_int)
  /\ UNCHANGED <<pitch, isTopInning, runners, runners_int, strike>>
  /\ UNCHANGED <<gameVars, scoreVars, entryVars, seqVars>>

CallDist ==
  /\ pc = "ready"
  /\ pc' = "dist"
  /\ ret' = DeltaFavorDist(pitch, isTopInning, runners, runners_int)
  /\ UNCHANGED <<pitch, isTopInning, runners, runners_int, strike>>
  /\ UNCHANGED <<gameVars, scoreVars, entryVars, seqVars>>

CallMonte ==
  /\ pc = "ready"
  /\ pc' = "monte"
  /\ \E k \in IF MonteSamples(pitch, isTopInning, runners, runners_int)
              THEN StrikeCounts(pitch) ELSE {-1} :
       /\ strike' = k
       /\ ret' = DeltaFavorMonte(pitch, isTopInning, runners, runners_int, k)
  /\ UNCHANGED <<pitch, isTopInning, runners, runners_int>>
  /\ UNCHANGED <<gameVars, scoreVars, entryVars, seqVars>>

Next == CallZone \/ CallDist \/ CallMonte

Spec == Init /\ [][Next]_vars

-----------------------------------------------------------------------------
(* The aggregator find_missed_calls over a game.  The outer loop takes the  *)
(* at-bats of game.liveData.plays.allPlays one by one; the model draws each *)
(* at-bat when the loop reaches it.                                         *)

MaxAtBats == 2

\* events of the whole game
MaxEvents == 3

\* a ball called a strike far off the plate on the first pitch with nobody
\* out (priced by the table entry [0][0][0][r], which is 0 with the bases
\* empty), a strike called a ball in the middle of the zone, a called strike
\* inside the grace band, and a record that is no pitch (not listed in
\* pitchIndex)
GameEvents ==
  {[isPitch |-> TRUE, pitch |-> ValidPitch("C", 11, PX_MAX + 100, 588, 816, 360, 0, 1, 0)],
   [isPitch |-> TRUE, pitch |-> ValidPitch("B", 1, 0, 588, 816, 360, 1, 1, 1)],
   [isPitch |-> TRUE, pitch |-> ValidPitch("C", 11, PX_MAX + 4, 588, 816, 360, 0, 1, 2)],
   [isPitch |-> FALSE, pitch |-> ValidPitch("C", 11, PX_MAX + 100, 588, 816, 360, 2, 2, 0)]}

GameOffenses == {RunnersObj(FALSE, FALSE, FALSE), RunnersObj(TRUE, TRUE, FALSE)}

RECURSIVE PitchIndexFrom(_, _)
\* at_bat.pitchIndex: the 0-based indices of the events that are pitches
PitchIndexFrom(evs, n) ==
  IF n > Len(evs) THEN <<>>
  ELSE (IF evs[n].isPitch THEN <<n - 1>> ELSE <<>>) \o PitchIndexFrom(evs, n + 1)

SeqsUpTo(S, n) == UNION {[1 .. m -> S] : m \in 0 .. n}

AtBats(n) ==
  {[isTopInning |-> top, offense |-> off, playEvents |-> evs,
    pitchIndex |-> PitchIndexFrom(evs, 1)] :
     top \in BOOLEAN, off \in GameOffenses, evs \in SeqsUpTo(GameEvents, n)}

\* Reference values for the aggregate: the strategy result of the event with
\* 0-based index i of an at-bat read from the game, priced with the runner
\* state the at-bat starts with; their sum and the list of the non-zero ones
\* over pitchIndex
WantDelta(ab, i) ==
  DeltaFavorDist(ab.playEvents[i + 1].pitch, PyBool(ab.isTopInning), ab.offense, PyNone).val

RECURSIVE WantSum(_, _)
WantSum(ab, n) ==
  IF n > Len(ab.pitchIndex) THEN 0
  ELSE WantDelta(ab, ab.pitchIndex[n]) + WantSum(ab, n + 1)

RECURSIVE WantList(_, _, _)
WantList(ab, a, n) ==
  IF n > Len(ab.pitchIndex) THEN <<>>
  ELSE (IF WantDelta(ab, ab.pitchIndex[n]) # 0 THEN <<<<a, ab.pitchIndex[n]>>>> ELSE <<>>)
       \o WantList(ab, a, n + 1)

RECURSIVE WantJudged(_, _, _)
\* the pitches of pitchIndex on which the strategy reaches the pricing of a
\* call it has judged incorrect
WantJudged(ab, a, n) ==
  IF n > Len(ab.pitchIndex) THEN <<>>
  ELSE (IF DeltaFavorDist(ab.playEvents[ab.pitchIndex[n] + 1].pitch,
                          PyBool(ab.isTopInning), ab.offense, PyNone).lookup.done
        THEN <<<<a, ab.pitchIndex[n]>>>> ELSE <<>>)
       \o WantJudged(ab, a, n + 1)

GameInit ==
  /\ pitch = NoDataPitch("S", 0, 0, 0)
  /\ isTopInning = PyBool(TRUE)
  /\ runners = NoRunners
  /\ runners_int = PyNone
  /\ pc = "idle"
  /\ ret = Raise("none")
  /\ strike = -1
  /\ gpc = "start"
  /\ abIndex = 0
  /\ at_bat = NoAtBat
  /\ ipos = 0
  /\ trk = NoRunners
  /\ home_favor = 0
  /\ missed_calls = <<>>
  /\ result = NoResult
  /\ wantFavor = 0
  /\ wantMissed = <<>>
  /\ nEvents = 0
  /\ EntryIdle(BOOLEAN)
  /\ SeqIdle
  /\ ScoreIdle

\* Umpire.__init__(gamePk, game), the arguments given as "is not None": the
\* game the object holds, and how the constructor ends.  After the branch the
\* constructor reads game.gamePk and game.gameData from the argument game,
\* not from self.game.
UmpireInit(game, gamePk) ==
  IF game THEN [kind |-> "ok", gameSrc |-> "arg"]
  ELSE IF gamePk THEN [kind |-> "AttributeError", gameSrc |-> "fetched"]
  ELSE [kind |-> "ValueError", gameSrc |-> "none"]

\* the entry of find_missed_calls(game, gamePk): the game it iterates, or the
\* exception it raises
FindMissedCallsGame(game, gamePk) ==
  IF ~game /\ gamePk THEN "fetched"
  ELSE IF ~game /\ ~gamePk THEN "ValueError"
  ELSE "arg"

\* Umpire(gamePk=..., game=...)
NewUmpire ==
  /\ gpc = "start"
  /\ umpire' = UmpireInit(gameArg, gamePkArg)
  /\ gpc' = "constructed"
  /\ UNCHANGED <<abIndex, at_bat, ipos, trk, home_favor, missed_calls, result,
                 wantFavor, wantMissed, nEvents>>
  /\ UNCHANGED <<gameArg, gamePkArg, gameSrc, fmcErr>>
  /\ UNCHANGED <<evalVars, scoreVars, seqVars>>

\* the argument check, then home_favor = 0; missed_calls = []; runners = Runners()
StartGame ==
  /\ gpc = "start"
  /\ LET g == FindMissedCallsGame(gameArg, gamePkArg)
     IN  IF g = "ValueError"
         THEN /\ gpc' = "raised"
              /\ fmcErr' = "ValueError"
              /\ UNCHANGED <<gameSrc, home_favor, missed_calls, trk>>
         ELSE /\ gpc' = "atbat"
              /\ gameSrc' = g
              /\ home_favor' = 0
              /\ missed_calls' = <<>>
              /\ trk' = RunnersObj(FALSE, FALSE, FALSE)
              /\ UNCHANGED fmcErr
  /\ UNCHANGED <<abIndex, at_bat, ipos, result, wantFavor, wantMissed, nEvents>>
  /\ UNCHANGED <<gameArg, gamePkArg, umpire>>
  /\ UNCHANGED <<evalVars, scoreVars, seqVars>>

\* runners.new_batter(at_bat): occupancy as the at-bat's offense reports it
NewBatterRunners(r, ab) == ab.offense

\* for at_bat in allPlays: runners.new_batter(at_bat); isTopInning = ...
NewBatter ==
  /\ gpc = "atbat"
  /\ abIndex < MaxAtBats
  /\ \E ab \in AtBats(MaxEvents - nEvents) :
       /\ at_bat' = ab
       /\ trk' = NewBatterRunners(trk, ab)
       /\ wantFavor' = wantFavor + WantSum(ab, 1)
       /\ wantMissed' = wantMissed \o WantList(ab, abIndex, 1)
       /\ nEvents' = nEvents + Len(ab.playEvents)
       /\ wantJudged' = wantJudged \o WantJudged(ab, abIndex, 1)
  /\ abIndex' = abIndex + 1
  /\ ipos' = 0
  /\ gpc' = "pitches"
  /\ nNew' = nNew + 1
  /\ trkAtNew' = trk'
  /\ usedRunners' = {}
  /\ UNCHANGED <<home_favor, missed_calls, result, nEnd>>
  /\ UNCHANGED <<evalVars, scoreVars, entryVars>>

\* only calls in favour of the home team are kept
Accumulate_PositiveOnly(favor, missed, home_delta, ref) ==
  IF home_delta > 0
  THEN [favor |-> favor + home_delta, missed |-> Append(missed, ref)]
  ELSE [favor |-> favor, missed |-> missed]

\* if home_delta != 0: home_favor += home_delta; missed_calls.append(pitch)
Accumulate(favor, missed, home_delta, ref) ==
  IF home_delta # 0
  THEN [favor |-> favor + home_delta, missed |-> Append(missed, ref)]
  ELSE [favor |-> favor, missed |-> missed]

\* runners.end_batter(at_bat) sits inside the loop over pitchIndex
EvalPitch_EndsBatter ==
  /\ gpc = "pitches"
  /\ ipos < Len(at_bat.pitchIndex)
  /\ LET i == at_bat.pitchIndex[ipos + 1]
         p == at_bat.playEvents[i + 1].pitch
         d == DeltaFavorDist(p, PyBool(at_bat.isTopInning), trk, PyNone)
         acc == Accumulate(home_favor, missed_calls, d.val, <<abIndex - 1, i>>)
     IN  IF d.kind = "value"
         THEN /\ home_favor' = acc.favor
              /\ missed_calls' = acc.missed
              /\ gpc' = "pitches"
         ELSE /\ gpc' = "raised"
              /\ UNCHANGED <<home_favor, missed_calls>>
  /\ ipos' = ipos + 1
  /\ usedRunners' = usedRunners \cup {RunnersInt(trk)}
  /\ trk' \in GameOffenses
  /\ nEnd' = nEnd + 1
  /\ UNCHANGED <<abIndex, at_bat, result, wantFavor, wantMissed, nEvents>>
  /\ UNCHANGED <<nNew, trkAtNew, wantJudged>>
  /\ UNCHANGED <<evalVars, scoreVars, entryVars>>

\* one iteration of for i in at_bat.pitchIndex
EvalPitch ==
  /\ gpc = "pitches"
  /\ ipos < Len(at_bat.pitchIndex)
  /\ LET i == at_bat.pitchIndex[ipos + 1]
         p == at_bat.playEvents[i + 1].pitch
         d == DeltaFavorDist(p, PyBool(at_bat.isTopInning), trk, PyNone)
         acc == Accumulate(home_favor, missed_calls, d.val, <<abIndex - 1, i>>)
     IN  IF d.kind = "value"
         THEN /\ home_favor' = acc.favor
              /\ missed_calls' = acc.missed
              /\ gpc' = "pitches"
         ELSE /\ gpc' = "raised"
              /\ UNCHANGED <<home_favor, missed_calls>>
  /\ ipos' = ipos + 1
  /\ usedRunners' = usedRunners \cup {RunnersInt(trk)}
  /\ UNCHANGED <<abIndex, at_bat, trk, result, wantFavor, wantMissed, nEvents>>
  /\ UNCHANGED <<nNew, nEnd, trkAtNew, wantJudged>>
  /\ UNCHANGED <<evalVars, scoreVars, entryVars>>

\* the inner loop is exhausted: runners.end_batter(at_bat) moves the runners
\* as the play of the at-bat says
EndBatter ==
  /\ gpc = "pitches"
  /\ ipos = Len(at_bat.pitchIndex)
  /\ trk' \in GameOffenses
  /\ gpc' = "atbat"
  /\ nEnd' = nEnd + 1
  /\ UNCHANGED <<abIndex, at_bat, ipos, home_favor, missed_calls, result,
                 wantFavor, wantMissed, nEvents>>
  /\ UNCHANGED <<nNew, trkAtNew, usedRunners, wantJudged>>
  /\ UNCHANGED <<evalVars, scoreVars, entryVars>>

\* return (len(missed_calls), home_favor, missed_calls)
Returned(favor, missed) == [n |-> Len(missed), favor |-> favor, missed |-> missed]

\* the outer loop is exhausted
ReturnResult ==
  /\ gpc = "atbat"
  /\ result' = Returned(home_favor, missed_calls)
  /\ gpc' = "done"
  /\ UNCHANGED <<abIndex, at_bat, ipos, trk, home_favor, missed_calls,
                 wantFavor, wantMissed, nEvents>>
  /\ UNCHANGED <<evalVars, scoreVars, entryVars, seqVars>>

GameNext ==
  NewUmpire \/ StartGame \/ NewBatter \/ EvalPitch \/ EndBatter \/ ReturnResult

GameSpec == GameInit /\ [][GameNext]_vars

-----------------------------------------------------------------------------
(* ScoreboardData.update_and_return_new over a sequence of poll cycles.     *)

MaxPolls == 2

\* self keeps its old value
DiffStep_NoAdopt(st, new_game, key) ==
  LET old_value == st.self[key]
      new_value == new_game[key]
  IN  IF old_value # new_value
      THEN [self |-> st.self,
            differences |-> [st.differences EXCEPT ![key] = new_value],
            new_info |-> TRUE]
      ELSE [self |-> st.self,
            differences |-> [st.differences EXCEPT ![key] = PyNone],
            new_info |-> st.new_info]

\* the body of for key in ScoreboardData.keys, on the triple of self,
\* differences and new_info
DiffStep(st, new_game, key) ==
  LET old_value == st.self[key]
      new_value == new_game[key]
  IN  IF old_value # new_value
      THEN [self |-> [st.self EXCEPT ![key] = new_value],
            differences |-> [st.differences EXCEPT ![key] = new_value],
            new_info |-> TRUE]
      ELSE [self |-> st.self,
            differences |-> [st.differences EXCEPT ![key] = PyNone],
            new_info |-> st.new_info]

RECURSIVE DiffLoop(_, _, _)
DiffLoop(st, new_game, i) ==
  IF i > Len(keys) THEN st
  ELSE DiffLoop(DiffStep(st, new_game, keys[i]), new_game, i + 1)

\* differences = copy.deepcopy(self); new_info = False; the loop; the return
UpdateResult(self, new_game) ==
  DiffLoop([self |-> self, differences |-> self, new_info |-> FALSE], new_game, 1)

\* ScoreboardData.to_dict: the keys whose value is not None
ToDict(obj) == [k \in {j \in KeySet : obj[j] # PyNone} |-> obj[k]]

ScoreInit ==
  /\ pitch = NoDataPitch("S", 0, 0, 0)
  /\ isTopInning = PyBool(TRUE)
  /\ runners = NoRunners
  /\ runners_int = PyNone
  /\ pc = "idle"
  /\ ret = Raise("none")
  /\ strike = -1
  /\ GameIdle
  /\ sself \in Snapshots
  /\ fetched = sself
  /\ differences = [k \in KeySet |-> PyNone]
  /\ new_info = FALSE
  /\ before = sself
  /\ lastFetched = sself
  /\ polls = 0

\* one poll cycle: new_game is fetched and diffed against self
UpdateAndReturnNew ==
  /\ polls < MaxPolls
  /\ \E new_game \in Snapshots :
       LET r == UpdateResult(sself, new_game)
       IN  /\ fetched' = new_game
           /\ sself' = r.self
           /\ differences' = r.differences
           /\ new_info' = r.new_info
  /\ before' = sself
  /\ lastFetched' = fetched
  /\ polls' = polls + 1
  /\ UNCHANGED <<evalVars, gameVars, entryVars, seqVars>>

ScoreNext == UpdateAndReturnNew

ScoreSpec == ScoreInit /\ [][ScoreNext]_vars

-----------------------------------------------------------------------------
(* Properties.                                                              *)

Called == pc \in {"zone", "dist", "monte"}

\* the zone number contradicts the call
ZoneMiss(p) ==
  \/ p.code = "C" /\ p.zone > 10
  \/ p.code = "B" /\ p.zone >= 1 /\ p.zone <= 9

\* the strategy that was called got past its checks and judged the call
\* incorrect
JudgedMiss ==
  \/ /\ pc = "zone"
     /\ CheckArgs(isTopInning, runners, runners_int) = "ok"
     /\ pitch.hasData /\ ZoneMiss(pitch)
  \/ /\ pc = "dist"
     /\ CheckArgs(isTopInning, runners, runners_int) = "ok"
     /\ pitch.hasData /\ pitch.valid /\ ~InBufferZone(pitch) /\ ZoneMiss(pitch)
  \/ /\ pc = "monte"
     /\ CheckArgsMonte(isTopInning, runners, runners_int) = "ok"
     /\ pitch.hasData /\ pitch.valid
     /\ \/ pitch.code = "B" /\ strike > 450
        \/ pitch.code = "C" /\ strike >= 0 /\ strike < 50

\* DeltaTable[b][s][o][r] as Python indexes it
TableEntry(b, s, o, r) == rednp(NpIndex(b, 4), NpIndex(s, 3), NpIndex(o, 3), NpIndex(r, 8))

\* the runner encoding the call was given
GivenRunnerState == IF runners.given THEN RunnersInt(runners) ELSE runners_int.v

\* C1: in every strategy, a call judged incorrect in a top half-inning returns
\* +DeltaTable[balls][strikes-1][outs][runnerState] for a called strike and
\* -DeltaTable[balls-1][strikes][outs][runnerState] for a called ball.
C1_RunDeltaPricing ==
  (JudgedMiss /\ isTopInning = PyBool(TRUE)) =>
    /\ ret.kind = "value"
    /\ pitch.code = "C" =>
         ret.val = TableEntry(pitch.balls, pitch.strikes - 1, pitch.outs, GivenRunnerState)
    /\ pitch.code = "B" =>
         ret.val = -TableEntry(pitch.balls - 1, pitch.strikes, pitch.outs, GivenRunnerState)

\* a Monte-Carlo call on a called ball with every sample inside the zone, in
\* the top half, priced at a non-zero value
C1_Witness ==
  /\ pc = "monte" /\ JudgedMiss /\ isTopInning = PyBool(TRUE)
  /\ pitch.code = "B" /\ strike = 500
  /\ pitch.balls = 2 /\ pitch.strikes = 1 /\ pitch.outs = 2
  /\ ret.val = -TableEntry(1, 1, 2, runners_int.v) /\ ret.val # 0

FlipHalf(isTop) == IF isTop.v = 1 THEN PyBool(FALSE) ELSE PyBool(TRUE)

\* the same call with the other half-inning (and the same samples)
OtherHalf ==
  IF pc = "zone" THEN DeltaFavorZone(pitch, FlipHalf(isTopInning), runners, runners_int)
  ELSE IF pc = "dist" THEN DeltaFavorDist(pitch, FlipHalf(isTopInning), runners, runners_int)
  ELSE DeltaFavorMonte(pitch, FlipHalf(isTopInning), runners, runners_int, strike)

\* C2: the value returned for the bottom half is the negation of the value
\* returned for the top half, for every strategy and input; for a positive
\* table entry a ball called a strike in the top half returns a positive value
\* and a strike called a ball in the top half a negative value.
C2_SignConvention ==
  (Called /\ isTopInning.t = "bool") =>
    /\ OtherHalf.kind = ret.kind
    /\ OtherHalf.val = -ret.val
    /\ (JudgedMiss /\ isTopInning = PyBool(TRUE) /\ pitch.code = "C"
        /\ TableEntry(pitch.balls, pitch.strikes - 1, pitch.outs, GivenRunnerState) > 0)
         => ret.val > 0
    /\ (JudgedMiss /\ isTopInning = PyBool(TRUE) /\ pitch.code = "B"
        /\ TableEntry(pitch.balls - 1, pitch.strikes, pitch.outs, GivenRunnerState) > 0)
         => ret.val < 0

\* a ball called a strike in the bottom half, by the distance strategy:
\* a negative value whose negation the top half returns
C2_Witness ==
  /\ pc = "dist" /\ JudgedMiss /\ isTopInning = PyBool(FALSE)
  /\ pitch.code = "C" /\ ret.kind = "value" /\ ret.val < 0
  /\ OtherHalf.val = -ret.val

\* C3: find_missed_calls returns (n, favor, missed) where missed lists, in
\* at-bat order and then pitchIndex order, exactly the pitches of the game
\* whose strategy result is not 0, n is its length and favor is the sum of the
\* strategy results over the pitches listed in pitchIndex; events that are not
\* listed contribute nothing.
C3_GameAggregation ==
  gpc = "done" =>
    /\ result.missed = wantMissed
    /\ result.n = Len(wantMissed)
    /\ result.favor = wantFavor

\* a finished game of two at-bats with two missed calls, the last at-bat
\* holding an event that pitchIndex does not list
C3_Witness ==
  /\ gpc = "done" /\ abIndex = 2
  /\ result.n = 2 /\ result.missed[1][1] = 0 /\ result.missed[2][1] = 1
  /\ result.favor # 0
  /\ Len(at_bat.pitchIndex) < Len(at_bat.playEvents)

\* C4: the zone strategy judges a pitch incorrect exactly when it is a called
\* strike with zone > 10 or a called ball with zone in 1..9; for every other
\* pair of pitch code and zone number delta_favor_zone returns 0.
C4_ZoneJudgement ==
  (pc = "zone" /\ ret.kind = "value") =>
    /\ ret.lookup.done <=>
         \/ pitch.code = "C" /\ pitch.zone > 10
         \/ pitch.code = "B" /\ pitch.zone \in 1 .. 9
    /\ ~( \/ pitch.code = "C" /\ pitch.zone > 10
          \/ pitch.code = "B" /\ pitch.zone \in 1 .. 9 ) => ret.val = 0

\* a called strike with zone number 10 is judged correct, and a called ball
\* with zone number 9 is priced
C4_Witness ==
  /\ pc = "zone" /\ ret.kind = "value"
  /\ pitch.code = "B" /\ pitch.zone = 9 /\ ret.lookup.done /\ ret.val # 0

Sq(n) == n * n

Beyond(v, lo, hi) == IF v < lo THEN lo - v ELSE IF v > hi THEN v - hi ELSE 0

\* squared distance of the location of p to the nearest of the four edge
\* segments of the rectangle [PX_MIN, PX_MAX] x [pZ_bot, pZ_top]
EdgeDistSq(p) ==
  LET dl == Sq(p.pX - PX_MIN) + Sq(Beyond(p.pZ, p.pZ_bot, p.pZ_top))
      dr == Sq(p.pX - PX_MAX) + Sq(Beyond(p.pZ, p.pZ_bot, p.pZ_top))
      dt == Sq(p.pZ - p.pZ_top) + Sq(Beyond(p.pX, PX_MIN, PX_MAX))
      db == Sq(p.pZ - p.pZ_bot) + Sq(Beyond(p.pX, PX_MIN, PX_MAX))
      m1 == IF dl < dr THEN dl ELSE dr
      m2 == IF dt < db THEN dt ELSE db
  IN  IF m1 < m2 THEN m1 ELSE m2

\* C5: delta_favor_dist returns 0 for every pitch with a valid location that
\* lies at distance less than BUFFER_FEET from an edge segment of the strike
\* zone, whatever the code, the zone number, the count, the runners and the
\* half-inning.
C5_GraceBandZero ==
  (/\ pc = "dist" /\ ret.kind = "value"
   /\ pitch.hasData /\ pitch.valid
   /\ EdgeDistSq(pitch) < Sq(BUFFER_FEET)) =>
    /\ ret.val = 0
    /\ ~ret.lookup.done

\* a called strike with zone number 11 just below the bottom-left corner of
\* the zone, which the zone strategy prices, returns 0
C5_Witness ==
  /\ pc = "dist" /\ ret = Return(0, NoLookup)
  /\ pitch.valid /\ pitch.code = "C" /\ pitch.zone = 11
  /\ pitch.pX = PX_MIN - 4 /\ pitch.pZ = pitch.pZ_bot - 4
  /\ DeltaFavorZone(pitch, isTopInning, runners, runners_int).val # 0

\* C6: for a pitch with a valid location outside the grace band,
\* delta_favor_dist returns what delta_favor_zone returns for the same pitch,
\* half-inning and runner state, given as a Runners object or as its integer.
C6_AgreeOutsideBand ==
  (pc = "dist" /\ pitch.hasData /\ pitch.valid /\ ~InBufferZone(pitch)) =>
    LET z == DeltaFavorZone(pitch, isTopInning, runners, runners_int)
        zi == DeltaFavorZone(pitch, isTopInning, NoRunners, PyInt(GivenRunnerState))
    IN  /\ ret.kind = z.kind /\ ret.val = z.val
        /\ ret.kind = "value" => (ret.kind = zi.kind /\ ret.val = zi.val)

\* a missed call outside the band, the runners given as an object together
\* with a different runners_int
C6_Witness ==
  /\ pc = "dist" /\ pitch.valid /\ ~InBufferZone(pitch)
  /\ runners.given /\ runners_int.t = "int" /\ runners_int.v # RunnersInt(runners)
  /\ ret.kind = "value" /\ ret.val # 0

\* the call reached the sampling loop of the Monte-Carlo strategy
Sampled == pc = "monte" /\ strike >= 0

\* C7 as stated: 500 candidate locations are tested per decision pitch and,
\* with k of them inside the zone, a called ball is judged a miss iff
\* k >= 450 and a called strike iff 500 - k >= 450.
C7_Original ==
  /\ pc = "monte" =>
       (Sampled <=> MonteSamples(pitch, isTopInning, runners, runners_int))
  /\ Sampled =>
       /\ NumSamples = 500 /\ strike \in 0 .. NumSamples
       /\ ret.lookup.done <=>
            \/ pitch.code = "B" /\ strike >= 450
            \/ pitch.code = "C" /\ 500 - strike >= 450

\* C7 (amended): 500 candidate locations are tested per decision pitch and,
\* with k of them inside the zone, a called ball is judged a miss iff k > 450
\* (more than 90% inside) and a called strike iff 500 - k > 450 (more than 90%
\* outside); in every other case the call is judged correct.
C7_DecisionRule ==
  /\ pc = "monte" =>
       (Sampled <=> MonteSamples(pitch, isTopInning, runners, runners_int))
  /\ Sampled =>
       /\ NumSamples = 500 /\ strike \in 0 .. NumSamples
       /\ ret.lookup.done <=>
            \/ pitch.code = "B" /\ strike > 450
            \/ pitch.code = "C" /\ 500 - strike > 450
       /\ ~ret.lookup.done => ret = Return(0, NoLookup)

\* a called ball with exactly 450 of the 500 samples inside the zone is
\* judged correct
C7_Witness ==
  /\ Sampled /\ pitch.code = "B" /\ strike = 450
  /\ ret = Return(0, NoLookup)

\* C8: whenever a strategy performs a delta-table lookup for a pitch whose
\* count is within balls 0..3, strikes 0..2, outs 0..2 and a runner state in
\* 0..7, the four indices it uses are inside the valid domain; strikes-1 is
\* never looked up when strikes = 0, nor balls-1 when balls = 0.
C8_IndexGuard ==
  (/\ Called /\ ret.lookup.done
   /\ pitch.balls \in BallsDom /\ pitch.strikes \in StrikesDom
   /\ pitch.outs \in OutsDom /\ GivenRunnerState \in RunnerDom) =>
    /\ ret.lookup.b \in 0 .. 3
    /\ ret.lookup.s \in 0 .. 2
    /\ ret.lookup.o \in 0 .. 2
    /\ ret.lookup.r \in 0 .. 7

\* isTopInning is a boolean and the runners are given as a Runners object,
\* as an integer, or as both
WellTyped ==
  /\ isTopInning.t = "bool"
  /\ runners_int.t \in {"none", "int"}
  /\ runners.given \/ runners_int.t = "int"

\* C9: for each strategy, with well-typed arguments, a pitch without pitch
\* data, with invalid coordinates or with a code other than 'C' and 'B'
\* returns 0, raises nothing and performs no delta-table lookup.
C9_DataErrorRecovery ==
  (/\ Called /\ WellTyped
   /\ ~pitch.hasData \/ ~pitch.valid \/ pitch.code \notin {"C", "B"}) =>
    ret = Return(0, NoLookup)

\* C10: in all three strategies a call raises ValueError iff neither runners
\* nor runners_int is supplied; otherwise it raises TypeError iff isTopInning
\* is not a boolean or runners_int is supplied and is not an integer;
\* otherwise no input error is raised and the call is evaluated with
\* int(runners) when a Runners object is given, runners_int otherwise.
C10_ArgValidation ==
  Called =>
    LET neither == ~runners.given /\ runners_int.t = "none"
        badType == \/ isTopInning.t # "bool"
                   \/ runners_int.t \notin {"none", "int"}
    IN  /\ ret.kind = "ValueError" <=> neither
        /\ ~neither => (ret.kind = "TypeError" <=> badType)
        /\ (~neither /\ ~badType /\ ret.lookup.done) => ret.lookup.r = GivenRunnerState

\* the schema keys on which the object before the call and the fetched
\* snapshot differ
ChangedKeys == {k \in KeySet : before[k] # fetched[k]}

C12_SnapshotAdoption ==
  polls > 0 =>
    /\ \A k \in KeySet : sself[k] = fetched[k]
    /\ before = lastFetched
    /\ fetched = lastFetched => (DOMAIN ToDict(differences) = {} /\ ~new_info)

\* a second poll that fetches the game unchanged after a first poll that
\* changed a field
C12_Witness ==
  /\ polls = 2 /\ fetched = lastFetched /\ ~new_info
  /\ sself["outs"] = PyInt(2) /\ sself["inning"] = PyInt(1)
  /\ DOMAIN ToDict(differences) = {}

\* neither a game nor a gamePk is supplied
NoGameInput == ~gameArg /\ ~gamePkArg

\* the rule for the constructor Umpire(gamePk, game)
InputRuleUmpire ==
  gpc = "constructed" =>
    /\ umpire.kind = "ValueError" <=> NoGameInput
    /\ (~gameArg /\ gamePkArg) => (umpire.kind = "ok" /\ umpire.gameSrc = "fetched")
    /\ gameArg => (umpire.kind = "ok" /\ umpire.gameSrc = "arg")

\* the rule for find_missed_calls(game, gamePk)
InputRuleFindMissedCalls ==
  gpc \in {"atbat", "pitches", "done", "raised"} =>
    /\ fmcErr = "ValueError" <=> NoGameInput
    /\ (~gameArg /\ gamePkArg) => gameSrc = "fetched"
    /\ gameArg => gameSrc = "arg"

\* C13: constructing an Umpire and calling find_missed_calls each raise
\* ValueError exactly when neither a game nor a gamePk is supplied; with only
\* a gamePk the game is fetched and the operation goes on without an error;
\* a supplied game takes priority over gamePk.
C13_GameInputValidation == InputRuleUmpire /\ InputRuleFindMissedCalls

\* C14: in find_missed_calls every at-bat is opened by new_batter before any
\* of its pitches is evaluated and closed by end_batter exactly once after
\* its last pitch and before the next at-bat is opened; between the two the
\* tracker is not modified, so all pitches of the at-bat are priced with the
\* runner state new_batter left.
C14_RunnerSequencing ==
  /\ gpc = "pitches" =>
       /\ nNew = abIndex
       /\ nEnd = abIndex - 1
       /\ trk = trkAtNew
       /\ usedRunners = IF ipos > 0 THEN {RunnersInt(trkAtNew)} ELSE {}
  /\ gpc \in {"atbat", "done"} =>
       /\ nNew = abIndex
       /\ nEnd = abIndex

\* the second at-bat, begun with runners on first and second, has had two
\* pitches evaluated
C14_Witness ==
  /\ gpc = "pitches"
  /\ abIndex = 2
  /\ ipos = 2
  /\ nEnd = 1
  /\ at_bat.offense = RunnersObj(TRUE, TRUE, FALSE)
  /\ usedRunners = {RunnersInt(at_bat.offense)}

\* C15: every pitch the strategy of find_missed_calls judges to be an
\* incorrect call is in the returned list and in the returned count, also
\* when the table prices the call at exactly 0.
C15_NoMissedCallDropped ==
  gpc = "done" =>
    /\ result.missed = wantJudged
    /\ result.n = Len(wantJudged)

\* the zone rectangle expanded outward by BUFFER_FEET, boundary included
InExpandedZone(p) ==
  /\ PX_MIN - BUFFER_FEET <= p.pX /\ p.pX <= PX_MAX + BUFFER_FEET
  /\ p.pZ_bot - BUFFER_FEET <= p.pZ /\ p.pZ <= p.pZ_top + BUFFER_FEET

\* strictly inside the zone rectangle shrunk inward by BUFFER_FEET
InZoneCore(p) ==
  /\ PX_MIN + BUFFER_FEET < p.pX /\ p.pX < PX_MAX - BUFFER_FEET
  /\ p.pZ_bot + BUFFER_FEET < p.pZ /\ p.pZ < p.pZ_top - BUFFER_FEET

ZoneBigEnough(p) ==
  /\ PX_MAX - PX_MIN >= 2 * BUFFER_FEET
  /\ p.pZ_top - p.pZ_bot >= 2 * BUFFER_FEET

\* C16: for a strike zone at least 2 * BUFFER_FEET wide and tall,
\* _in_buffer_zone is True exactly for the locations inside the zone
\* expanded by BUFFER_FEET (boundary included) that are not strictly inside
\* the zone shrunk by BUFFER_FEET: the four edge regions leave no gap at the
\* corners and never cover the core.  delta_favor_dist prices a miss by zone
\* number exactly outside that set.
C16_GraceBandGeometry ==
  (/\ pc = "dist" /\ ret.kind = "value"
   /\ pitch.hasData /\ pitch.valid /\ ZoneBigEnough(pitch)) =>
    /\ InBufferZone(pitch) <=> (InExpandedZone(pitch) /\ ~InZoneCore(pitch))
    /\ ZoneMiss(pitch) =>
         (ret.lookup.done <=> ~(InExpandedZone(pitch) /\ ~InZoneCore(pitch)))

\* a called strike at the outer top-right corner of the expanded rectangle
\* of a zone exactly 2 * BUFFER_FEET tall: farther than BUFFER_FEET from
\* every edge segment, yet inside the band
C16_Witness ==
  /\ pc = "dist" /\ ret = Return(0, NoLookup)
  /\ pitch.valid /\ pitch.code = "C" /\ pitch.zone = 11
  /\ pitch.pZ_top - pitch.pZ_bot = 2 * BUFFER_FEET
  /\ pitch.pX = PX_MAX + BUFFER_FEET /\ pitch.pZ = pitch.pZ_top + BUFFER_FEET
  /\ EdgeDistSq(pitch) > Sq(BUFFER_FEET)

\* the core of a low zone is reached: a location strictly inside the shrunk
\* rectangle is priced by zone number
C16_CoreWitness ==
  /\ pc = "dist" /\ ret.lookup.done
  /\ pitch.pZ_top - pitch.pZ_bot = 2 * BUFFER_FEET + 2
  /\ InZoneCore(pitch)

====
